---- MODULE Spec2Model ----
(***************************************************************************)
(* A model of package pgproto (crewlinker/pgproto): the semantic pass      *)
(* ParseFullTyped runs over the syntax tree pg_query builds, extracting    *)
(* per statement an Action with its ordered, typed, numbered Outputs.      *)
(*                                                                         *)
(* Strings the code inspects character by character (aliases) are          *)
(* sequences of one-character strings; type name segments are strings.     *)
(* A Go error is a record; a nil error is NoErr; errors.Join builds a      *)
(* sequence of causes, and errors.Is is a search through that sequence.    *)
(***************************************************************************)
EXTENDS Integers, Sequences, FiniteSets, TLC

VARIABLES
    buffer,   \* ParseFullTyped: the input, a sequence of source statements
    pc,       \* position of the call: "input", "loop", "done", "panic",
              \* or "call" / "returned" for the calls of a single function
    result,   \* ParseFullTyped: result.GetStmts(), the located RawStmt nodes
    pos,      \* ParseFullTyped: index of the next statement of the range loop
    actions,  \* ParseFullTyped: the named result actions
    err,      \* ParseFullTyped: the named result err (a sequence of joined errors)
    arg,      \* a single function call: the function and its argument
    ret       \* a single function call: what it returned

vars == <<buffer, pc, result, pos, actions, err, arg, ret>>

-----------------------------------------------------------------------------
(* Bounds of the model.                                                    *)

\* statements plus output items of one input buffer
MaxNodes == 4
\* length of an alias handed to numberedName on its own
MaxNameLen == 4
\* number of Outputs of an Action handed to checkAction on its own
MaxOutputs == 4
\* largest number of an Output handed to checkAction on its own
MaxNumber == 3
\* number of name nodes of a cast handed to parseResultTarget on its own
MaxParts == 3

-----------------------------------------------------------------------------
(* Sentinel errors and messages.                                           *)

ErrNoColumnAliasUsed == "ErrNoColumnAliasUsed"
ErrColumnWithoutCast == "ErrColumnWithoutCast"
ErrTypeCastInvalid == "ErrTypeCastInvalid"
ErrDuplicateNumberSuffix == "ErrDuplicateNumberSuffix"
ErrNamedWithoutNumberSuffix == "ErrNamedWithoutNumberSuffix"
ErrInvalidNumberSuffix == "ErrInvalidNumberSuffix"
MsgOnlySupport == "only support SELECT, INSERT, UPDATE or DELETE statements"
MsgFailedToParse == "failed to parse"

NoErr == "nil"
NoLoc == 0 - 1

\* An error value: its kind (the sentinel errors.Is finds, or the message), the
\* offset its prefix carries, and what its message is formatted with.
NewError(kind) ==
    [kind |-> kind, loc |-> NoLoc, alias |-> <<>>, parts |-> 0,
     number |-> 0, by |-> <<>>]

-----------------------------------------------------------------------------
(* numberedName and the library functions it calls.                        *)

Digits == <<"0", "1", "2", "3", "4", "5", "6", "7", "8", "9">>

IsDigit(c) == \E i \in 1..10 : Digits[i] = c

DigitVal(c) == (CHOOSE i \in 1..10 : Digits[i] = c) - 1

\* strings.LastIndex(name, "_"), as a 1-based index; 0 for Go's -1
LastIndex(name, c) ==
    IF \E i \in 1..Len(name) : name[i] = c
    THEN CHOOSE i \in 1..Len(name) :
            /\ name[i] = c
            /\ \A j \in (i + 1)..Len(name) : name[j] # c
    ELSE 0

RECURSIVE AtoiDigits(_, _, _)
\* the digit loop of strconv.Atoi: n = n*10 + ch, a syntax error on a non-digit
AtoiDigits(s, i, n) ==
    IF i > Len(s) THEN [ok |-> TRUE, val |-> n]
    ELSE IF ~IsDigit(s[i]) THEN [ok |-> FALSE, val |-> 0]
    ELSE AtoiDigits(s, i + 1, n * 10 + DigitVal(s[i]))

\* if s0[0] == '-' { n = -n }
Negated(r) == [ok |-> r.ok, val |-> 0 - r.val]

\* strconv.Atoi: an optional sign, then one or more decimal digits
Atoi(s) ==
    IF Len(s) = 0 THEN [ok |-> FALSE, val |-> 0]
    ELSE IF s[1] = "+"
    THEN IF Len(s) < 2 THEN [ok |-> FALSE, val |-> 0] ELSE AtoiDigits(s, 2, 0)
    ELSE IF s[1] = "-"
    THEN IF Len(s) < 2 THEN [ok |-> FALSE, val |-> 0]
         ELSE Negated(AtoiDigits(s, 2, 0))
    ELSE AtoiDigits(s, 1, 0)

\* numberedName with "num < 0" for "num < 1": a zero suffix is accepted
suffixNumber_ZeroAllowed(a) ==
    IF ~a.ok THEN [num |-> 0, err |-> ErrNamedWithoutNumberSuffix]
    ELSE IF a.val < 0 THEN [num |-> 0, err |-> ErrInvalidNumberSuffix]
    ELSE [num |-> a.val, err |-> NoErr]

\* numberedName from the call of strconv.Atoi on, a being what it returned
suffixNumber(a) ==
    IF ~a.ok THEN [num |-> 0, err |-> ErrNamedWithoutNumberSuffix]
    ELSE IF a.val < 1 THEN [num |-> 0, err |-> ErrInvalidNumberSuffix]
    ELSE [num |-> a.val, err |-> NoErr]

\* numberedName after strings.LastIndex
splitName(name, lastUnderscore) ==
    IF lastUnderscore = 0 \/ lastUnderscore = Len(name)
    THEN [num |-> 0, err |-> ErrNamedWithoutNumberSuffix]
    ELSE suffixNumber(Atoi(SubSeq(name, lastUnderscore + 1, Len(name))))

numberedName(name) == splitName(name, LastIndex(name, "_"))

-----------------------------------------------------------------------------
(* parseResultTarget.                                                      *)
(* A ResTarget node is [name, cast, loc]: name is the alias ("" when the   *)
(* column has none), cast is [present, names] (the TypeCast of its value   *)
(* and the TypeName's name nodes), loc the node's offset. A name node is   *)
(* [str, sval]: str says whether the node is a String node.                *)

NoOutput == [Number |-> 0, Name |-> <<>>, Type |-> [Schema |-> <<>>, Name |-> ""]]

Returned(out) == [status |-> "ok", out |-> out, err |-> NewError(NoErr)]

Failed(e) == [status |-> "err", out |-> NoOutput, err |-> e]

Panicked == [status |-> "panic", out |-> NoOutput, err |-> NewError(NoErr)]

\* fmt.Errorf("result_target@%d: %w", rtgt.GetLocation(), ...)
resTargetErrorf(rtgt, e) == [e EXCEPT !.loc = rtgt.loc]

\* svalString panics on a node that is no String node
svalStringPanics(n) == ~n.str

svalString(n) == n.sval

\* the type of the output: the switch over len(typeNameParts)
typedOutput_NoSchema(rtgt, num, parts) ==
    IF Len(parts) \in {1, 2}
    THEN IF \E i \in 1..Len(parts) : svalStringPanics(parts[i])
         THEN Panicked
         ELSE Returned([Number |-> num, Name |-> rtgt.name,
                        Type |-> [Schema |-> <<>>,
                                  Name |-> svalString(parts[Len(parts)])]])
    ELSE Failed(resTargetErrorf(rtgt,
            [NewError(ErrTypeCastInvalid) EXCEPT
                !.alias = rtgt.name, !.parts = Len(parts)]))

typedOutput(rtgt, num, parts) ==
    IF Len(parts) = 1
    THEN IF svalStringPanics(parts[1])
         THEN Panicked
         ELSE Returned([Number |-> num, Name |-> rtgt.name,
                        Type |-> [Schema |-> <<>>, Name |-> svalString(parts[1])]])
    ELSE IF Len(parts) = 2
    THEN IF svalStringPanics(parts[1]) \/ svalStringPanics(parts[2])
         THEN Panicked
         ELSE Returned([Number |-> num, Name |-> rtgt.name,
                        Type |-> [Schema |-> <<svalString(parts[1])>>,
                                  Name |-> svalString(parts[2])]])
    ELSE Failed(resTargetErrorf(rtgt,
            [NewError(ErrTypeCastInvalid) EXCEPT
                !.alias = rtgt.name, !.parts = Len(parts)]))

\* parseResultTarget looking for the cast before it looks at what numberedName
\* returned
numberedTarget_CastFirst(rtgt, n) ==
    IF ~rtgt.cast.present
    THEN Failed(resTargetErrorf(rtgt,
            [NewError(ErrColumnWithoutCast) EXCEPT !.alias = rtgt.name]))
    ELSE IF n.err # NoErr
    THEN Failed(resTargetErrorf(rtgt, NewError(n.err)))
    ELSE typedOutput(rtgt, n.num, rtgt.cast.names)

\* parseResultTarget from the call of numberedName on, n being what it returned
numberedTarget(rtgt, n) ==
    IF n.err # NoErr
    THEN Failed(resTargetErrorf(rtgt, NewError(n.err)))
    ELSE IF ~rtgt.cast.present
    THEN Failed(resTargetErrorf(rtgt,
            [NewError(ErrColumnWithoutCast) EXCEPT !.alias = rtgt.name]))
    ELSE typedOutput(rtgt, n.num, rtgt.cast.names)

parseResultTarget(rtgt) ==
    IF rtgt.name = <<>>
    THEN Failed(resTargetErrorf(rtgt, NewError(ErrNoColumnAliasUsed)))
    ELSE numberedTarget(rtgt, numberedName(rtgt.name))

-----------------------------------------------------------------------------
(* The statement parsers.                                                  *)
(* A RawStmt node is [kind, list, loc]: kind names the statement node that *)
(* is set, list is its target list (SELECT) or returning list (the         *)
(* others), loc is the statement's offset. What a statement parser         *)
(* returns is [panic, action, err]: err is the sequence of the errors      *)
(* joined by errors.Join, empty for nil.                                   *)

SelectAction == "SelectAction"
InsertAction == "InsertAction"
UpdateAction == "UpdateAction"
DeleteAction == "DeleteAction"

NoAction == [kind |-> "nil", Outputs |-> <<>>]

RECURSIVE rangeTargets(_, _, _, _)
\* the loop body putting each output in front of the ones before it
rangeBody_Prepend(list, i, outputs, joined, r) ==
    IF r.status = "panic"
    THEN [panic |-> TRUE, outputs |-> outputs, err |-> joined]
    ELSE IF r.status = "err"
    THEN rangeTargets(list, i + 1, outputs, Append(joined, r.err))
    ELSE rangeTargets(list, i + 1, <<r.out>> \o outputs, joined)

\* the body of the range loop, r being what parseResultTarget returned for
\* list[i]: a failing target joins its error and continues, any other appends
\* its output
rangeBody(list, i, outputs, joined, r) ==
    IF r.status = "panic"
    THEN [panic |-> TRUE, outputs |-> outputs, err |-> joined]
    ELSE IF r.status = "err"
    THEN rangeTargets(list, i + 1, outputs, Append(joined, r.err))
    ELSE rangeTargets(list, i + 1, Append(outputs, r.out), joined)

\* the range loop over the target list or the returning list
rangeTargets(list, i, outputs, joined) ==
    IF i > Len(list) THEN [panic |-> FALSE, outputs |-> outputs, err |-> joined]
    ELSE rangeBody(list, i, outputs, joined, parseResultTarget(list[i]))

\* the naked return of the named results action and err
ReturnNamed(kind, r) ==
    [panic |-> r.panic, action |-> [kind |-> kind, Outputs |-> r.outputs],
     err |-> r.err]

\* return action, nil
ReturnNil(kind, r) ==
    [panic |-> r.panic, action |-> [kind |-> kind, Outputs |-> r.outputs],
     err |-> <<>>]

parseSelectStmt(stmt) ==
    ReturnNamed(SelectAction, rangeTargets(stmt.list, 1, <<>>, <<>>))

parseInsertStmt(stmt) ==
    ReturnNamed(InsertAction, rangeTargets(stmt.list, 1, <<>>, <<>>))

parseDeleteStmt(stmt) ==
    ReturnNamed(DeleteAction, rangeTargets(stmt.list, 1, <<>>, <<>>))

\* parseUpdateStmt ends in "return action, nil": the joined err is dropped
parseUpdateStmt(stmt) ==
    ReturnNil(UpdateAction, rangeTargets(stmt.list, 1, <<>>, <<>>))

-----------------------------------------------------------------------------
(* checkAction.                                                            *)

NoDuplicate == [dup |-> FALSE, err |-> NewError(NoErr)]

\* fmt.Errorf("%w, %d is already used by: %s", ErrDuplicateNumberSuffix, ...)
DuplicateError(number, existing) ==
    [dup |-> TRUE,
     err |-> [NewError(ErrDuplicateNumberSuffix) EXCEPT
                !.number = number, !.by = existing.Name]]

RECURSIVE checkOutputs(_, _, _)
\* the range loop of checkAction; outputsByNumber is the map, a function from
\* the numbers seen to the Output that was stored for it
checkOutputs(outputs, i, outputsByNumber) ==
    IF i > Len(outputs) THEN NoDuplicate
    ELSE LET output == outputs[i]
         IN  IF output.Number \in DOMAIN outputsByNumber
             THEN DuplicateError(output.Number, outputsByNumber[output.Number])
             ELSE checkOutputs(outputs, i + 1,
                    [n \in DOMAIN outputsByNumber \cup {output.Number} |->
                        IF n = output.Number THEN output ELSE outputsByNumber[n]])

\* checkAction that finds nothing
checkAction_Never(action) == NoDuplicate

\* checkAction naming the Output that repeats the number, not the one that
\* claimed it
checkAction_OwnName(action) ==
    IF \E i, j \in 1..Len(action.Outputs) :
            j < i /\ action.Outputs[j].Number = action.Outputs[i].Number
    THEN DuplicateError(
            action.Outputs[CHOOSE i \in 1..Len(action.Outputs) :
                /\ \E j \in 1..(i - 1) :
                        action.Outputs[j].Number = action.Outputs[i].Number
                /\ \A k \in 1..(i - 1) : \A j \in 1..(k - 1) :
                        action.Outputs[j].Number # action.Outputs[k].Number].Number,
            action.Outputs[CHOOSE i \in 1..Len(action.Outputs) :
                /\ \E j \in 1..(i - 1) :
                        action.Outputs[j].Number = action.Outputs[i].Number
                /\ \A k \in 1..(i - 1) : \A j \in 1..(k - 1) :
                        action.Outputs[j].Number # action.Outputs[k].Number])
    ELSE NoDuplicate

checkAction(action) == checkOutputs(action.Outputs, 1, <<>>)

-----------------------------------------------------------------------------
(* parseStmt.                                                              *)

\* fmt.Errorf("statement@%d: %w", rstmt.GetStmtLocation(), ...): the statement's
\* error, around the errors it wraps
stmtErrorf(rstmt, kind, causes) ==
    [kind |-> kind, loc |-> rstmt.loc, causes |-> causes]

StatementError == "statement"

StmtReturned(action) ==
    [status |-> "ok", action |-> action, err |-> stmtErrorf([loc |-> NoLoc], NoErr, <<>>)]

StmtFailed(e) == [status |-> "err", action |-> NoAction, err |-> e]

StmtPanicked ==
    [status |-> "panic", action |-> NoAction,
     err |-> stmtErrorf([loc |-> NoLoc], NoErr, <<>>)]

\* the switch of parseStmt over the statement node that is set
parseByKind(rstmt) ==
    CASE rstmt.kind = "SelectStmt" -> parseSelectStmt(rstmt)
      [] rstmt.kind = "InsertStmt" -> parseInsertStmt(rstmt)
      [] rstmt.kind = "UpdateStmt" -> parseUpdateStmt(rstmt)
      [] rstmt.kind = "DeleteStmt" -> parseDeleteStmt(rstmt)

Supported == {"SelectStmt", "InsertStmt", "UpdateStmt", "DeleteStmt"}

\* if err := checkAction(action); err != nil { return nil, stmtErrorf(...) }
checkedAction(rstmt, action, c) ==
    IF c.dup
    THEN StmtFailed(stmtErrorf(rstmt, StatementError, <<c.err>>))
    ELSE StmtReturned(action)

\* parseStmt checking the action of a failed statement too, and joining what
\* checkAction finds to the column errors
joinedDuplicate(joined, c) == IF c.dup THEN Append(joined, c.err) ELSE joined

afterSwitch_JoinsDuplicate(rstmt, r) ==
    IF r.panic THEN StmtPanicked
    ELSE IF r.err # <<>>
    THEN StmtFailed(stmtErrorf(rstmt, StatementError,
            joinedDuplicate(r.err, checkAction(r.action))))
    ELSE checkedAction(rstmt, r.action, checkAction(r.action))

\* parseStmt after its switch, r being what the statement parser returned
afterSwitch(rstmt, r) ==
    IF r.panic THEN StmtPanicked
    ELSE IF r.err # <<>>
    THEN StmtFailed(stmtErrorf(rstmt, StatementError, r.err))
    ELSE checkedAction(rstmt, r.action, checkAction(r.action))

\* parseStmt whose default case returns nil, nil
parseStmt_UnsupportedIsNil(rstmt) ==
    IF rstmt.kind \notin Supported
    THEN StmtReturned(NoAction)
    ELSE afterSwitch(rstmt, parseByKind(rstmt))

parseStmt(rstmt) ==
    IF rstmt.kind \notin Supported
    THEN StmtFailed(stmtErrorf(rstmt, MsgOnlySupport, <<>>))
    ELSE afterSwitch(rstmt, parseByKind(rstmt))

-----------------------------------------------------------------------------
(* The input and pgquery.Parse.                                            *)
(* The buffer is a sequence of source statements [malformed, kind, list]:  *)
(* the grammar parser rejects the whole buffer when one of them is         *)
(* malformed, and otherwise yields one RawStmt per statement, each node    *)
(* with its offset in the buffer.                                          *)

Str(s) == [str |-> TRUE, sval |-> s]

NotStr == [str |-> FALSE, sval |-> ""]

Cast(names) == [present |-> TRUE, names |-> names]

NoCast == [present |-> FALSE, names |-> <<>>]

\* the output items of the buffers: three that parse (two of them with the
\* same number), one for each validation failure, one with a name node that
\* is no String
Targets ==
    { [name |-> <<"a", "_", "1">>, cast |-> Cast(<<Str("text")>>)],
      [name |-> <<"b", "_", "1">>, cast |-> Cast(<<Str("pg_catalog"), Str("int4")>>)],
      [name |-> <<"a", "_", "2">>, cast |-> Cast(<<Str("uuid")>>)],
      [name |-> <<>>, cast |-> NoCast],
      [name |-> <<"a", "1">>, cast |-> NoCast],
      [name |-> <<"a", "_", "0">>, cast |-> Cast(<<Str("text")>>)],
      [name |-> <<"a", "_", "3">>, cast |-> NoCast],
      [name |-> <<"a", "_", "4">>,
       cast |-> Cast(<<Str("db"), Str("pg_catalog"), Str("int4")>>)],
      [name |-> <<"a", "_", "5">>, cast |-> Cast(<<NotStr>>)] }

\* the source statements before their output items are written: one of each
\* supported kind, one of an unsupported kind, one the grammar rejects
SourceStmts ==
    { [malformed |-> FALSE, kind |-> k, list |-> <<>>] :
        k \in Supported \cup {"CreateStmt"} }
    \cup { [malformed |-> TRUE, kind |-> "", list |-> <<>>] }

RECURSIVE Nodes(_)
\* the statements and output items of a buffer
Nodes(input) ==
    IF input = <<>> THEN 0
    ELSE 1 + Len(input[1].list) + Nodes(Tail(input))

\* the offset of the i-th statement, and of its j-th output item
StmtLocation(i) == (i - 1) * (MaxNodes + 2)

Located(src, i) ==
    [kind |-> src.kind,
     list |-> [j \in 1..Len(src.list) |->
                 [name |-> src.list[j].name, cast |-> src.list[j].cast,
                  loc |-> StmtLocation(i) + j]],
     loc |-> StmtLocation(i)]

\* pgquery.Parse
Parse(input) ==
    IF \E i \in 1..Len(input) : input[i].malformed
    THEN [ok |-> FALSE, stmts |-> <<>>]
    ELSE [ok |-> TRUE, stmts |-> [i \in 1..Len(input) |-> Located(input[i], i)]]

-----------------------------------------------------------------------------
(* ParseFullTyped.                                                         *)

NoCall == [fn |-> "none"]

Init ==
    /\ buffer = <<>>
    /\ pc = "input"
    /\ result = <<>>
    /\ pos = 0
    /\ actions = <<>>
    /\ err = <<>>
    /\ arg = NoCall
    /\ ret = NoCall

\* the caller writes the next statement of the buffer
WriteStmt ==
    /\ pc = "input"
    /\ Nodes(buffer) < MaxNodes
    /\ \E s \in SourceStmts : buffer' = Append(buffer, s)
    /\ UNCHANGED <<pc, result, pos, actions, err, arg, ret>>

\* the caller writes the next output item of the statement it is writing
WriteTarget ==
    /\ pc = "input"
    /\ Nodes(buffer) < MaxNodes
    /\ buffer # <<>>
    /\ buffer[Len(buffer)].kind \in Supported
    /\ \E t \in Targets :
            buffer' = [buffer EXCEPT ![Len(buffer)].list = Append(@, t)]
    /\ UNCHANGED <<pc, result, pos, actions, err, arg, ret>>

RECURSIVE LeadingActions(_, _, _)
\* the Actions of the statements before the first one the grammar rejects
LeadingActions(input, i, acts) ==
    IF i > Len(input) \/ input[i].malformed THEN acts
    ELSE IF parseStmt(Located(input[i], i)).status = "ok"
    THEN LeadingActions(input, i + 1,
            Append(acts, parseStmt(Located(input[i], i)).action))
    ELSE LeadingActions(input, i + 1, acts)

\* a parse failure returned with the Actions of the statements before it
ParseFails_PartialActions ==
    /\ pc = "input"
    /\ ~Parse(buffer).ok
    /\ pc' = "done"
    /\ actions' = LeadingActions(buffer, 1, <<>>)
    /\ err' = <<stmtErrorf([loc |-> NoLoc], MsgFailedToParse, <<>>)>>
    /\ UNCHANGED <<buffer, result, pos, arg, ret>>

\* pgquery.Parse fails: return nil, fmt.Errorf("failed to parse: %w", err)
ParseFails ==
    /\ pc = "input"
    /\ ~Parse(buffer).ok
    /\ pc' = "done"
    /\ actions' = <<>>
    /\ err' = <<stmtErrorf([loc |-> NoLoc], MsgFailedToParse, <<>>)>>
    /\ UNCHANGED <<buffer, result, pos, arg, ret>>

ParseSucceeds ==
    /\ pc = "input"
    /\ Parse(buffer).ok
    /\ result' = Parse(buffer).stmts
    /\ pos' = 1
    /\ pc' = "loop"
    /\ UNCHANGED <<buffer, actions, err, arg, ret>>

\* the loop body giving up the actions collected so far on an error
Collect_ErrorDropsActions(r) ==
    /\ r.status # "panic"
    /\ IF r.status = "err"
       THEN err' = Append(err, r.err) /\ actions' = <<>>
       ELSE actions' = Append(actions, r.action) /\ UNCHANGED err

\* the body of the range loop over result.GetStmts(), r being what parseStmt
\* returned
Collect(r) ==
    /\ r.status # "panic"
    /\ IF r.status = "err"
       THEN err' = Append(err, r.err) /\ UNCHANGED actions
       ELSE actions' = Append(actions, r.action) /\ UNCHANGED err

\* one iteration of the range loop over result.GetStmts()
Iterate ==
    /\ pc = "loop"
    /\ pos <= Len(result)
    /\ Collect(parseStmt(result[pos]))
    /\ pos' = pos + 1
    /\ UNCHANGED <<buffer, pc, result, arg, ret>>

\* an iteration in which parseStmt panics: ParseFullTyped does not return
IteratePanics ==
    /\ pc = "loop"
    /\ pos <= Len(result)
    /\ parseStmt(result[pos]).status = "panic"
    /\ pc' = "panic"
    /\ UNCHANGED <<buffer, result, pos, actions, err, arg, ret>>

\* return actions, err
Return ==
    /\ pc = "loop"
    /\ pos > Len(result)
    /\ pc' = "done"
    /\ UNCHANGED <<buffer, result, pos, actions, err, arg, ret>>

Next ==
    WriteStmt \/ WriteTarget \/ ParseFails \/ ParseSucceeds \/ Iterate \/ IteratePanics \/ Return

Spec == Init /\ [][Next]_vars

-----------------------------------------------------------------------------
(* The functions called on their own: the argument is drawn, the call      *)
(* returns.                                                                *)

Idle ==
    /\ buffer = <<>>
    /\ result = <<>>
    /\ pos = 0
    /\ actions = <<>>
    /\ err = <<>>

SeqsUpTo(S, n) == UNION { [1..k -> S] : k \in 0..n }

NameChars == {"a", "_", "0", "1", "2", "-", "+"}

InitName ==
    /\ Idle
    /\ pc = "call"
    /\ arg \in [fn : {"numberedName"}, name : SeqsUpTo(NameChars, MaxNameLen)]
    /\ ret = NoCall

CallNumberedName ==
    /\ pc = "call"
    /\ arg.fn = "numberedName"
    /\ ret' = numberedName(arg.name)
    /\ pc' = "returned"
    /\ UNCHANGED <<buffer, result, pos, actions, err, arg>>

NextName == CallNumberedName

SpecName == InitName /\ [][NextName]_vars

\* Outputs as parseResultTarget builds them: the name ends in _<Number>
OutputPool ==
    { [Number |-> n, Name |-> <<c, "_", Digits[n + 1]>>,
       Type |-> [Schema |-> <<>>, Name |-> "text"]] :
        n \in 1..MaxNumber, c \in {"a", "b"} }

InitCheck ==
    /\ Idle
    /\ pc = "call"
    /\ arg \in [fn : {"checkAction"},
                action : [kind : {SelectAction, InsertAction, UpdateAction, DeleteAction},
                          Outputs : SeqsUpTo(OutputPool, MaxOutputs)]]
    /\ ret = NoCall

CallCheckAction ==
    /\ pc = "call"
    /\ arg.fn = "checkAction"
    /\ ret' = checkAction(arg.action)
    /\ pc' = "returned"
    /\ UNCHANGED <<buffer, result, pos, actions, err, arg>>

NextCheck == CallCheckAction

SpecCheck == InitCheck /\ [][NextCheck]_vars

\* aliases of every class numberedName tells apart, and no alias
TargetNames ==
    { <<>>, <<"a", "1">>, <<"a", "_">>, <<"a", "_", "b">>, <<"a", "_", "0">>,
      <<"a", "_", "-", "1">>, <<"a", "_", "1">>, <<"a", "_", "1", "2">> }

NameNodes == {Str("pg_catalog"), Str("int4"), NotStr}

InitTarget ==
    /\ Idle
    /\ pc = "call"
    /\ arg \in [fn : {"parseResultTarget"},
                rtgt : [name : TargetNames,
                        cast : {NoCast} \cup
                               {Cast(p) : p \in SeqsUpTo(NameNodes, MaxParts)},
                        loc : {7, 21}]]
    /\ ret = NoCall

\* a call that returns
CallParseResultTarget ==
    /\ pc = "call"
    /\ arg.fn = "parseResultTarget"
    /\ parseResultTarget(arg.rtgt).status # "panic"
    /\ ret' = parseResultTarget(arg.rtgt)
    /\ pc' = "returned"
    /\ UNCHANGED <<buffer, result, pos, actions, err, arg>>

\* a call that panics
PanicParseResultTarget ==
    /\ pc = "call"
    /\ arg.fn = "parseResultTarget"
    /\ parseResultTarget(arg.rtgt).status = "panic"
    /\ pc' = "panic"
    /\ UNCHANGED <<buffer, result, pos, actions, err, arg, ret>>

NextTarget == CallParseResultTarget \/ PanicParseResultTarget

SpecTarget == InitTarget /\ [][NextTarget]_vars

-----------------------------------------------------------------------------
(* What the specification says of an alias, an output item and a           *)
(* statement, stated without the functions of the code.                    *)

Underscores(name) == {i \in 1..Len(name) : name[i] = "_"}

\* the alias has an underscore, and it is not its final character
HasSuffix(name) == Underscores(name) # {} /\ name[Len(name)] # "_"

\* the text after the last underscore
SuffixText(name) ==
    SubSeq(name, 1 + CHOOSE k \in Underscores(name) :
                        \A m \in Underscores(name) : m <= k, Len(name))

Unsigned(t) == IF t # <<>> /\ t[1] \in {"+", "-"} THEN Tail(t) ELSE t

\* the text parses as an integer: an optional sign and one or more digits
IsNumeral(t) ==
    /\ Unsigned(t) # <<>>
    /\ \A i \in 1..Len(Unsigned(t)) :
            Unsigned(t)[i] \in {"0", "1", "2", "3", "4", "5", "6", "7", "8", "9"}

RECURSIVE Pow10(_)
Pow10(k) == IF k = 0 THEN 1 ELSE 10 * Pow10(k - 1)

RECURSIVE Magnitude(_)
Magnitude(d) ==
    IF d = <<>> THEN 0
    ELSE DigitVal(d[1]) * Pow10(Len(d) - 1) + Magnitude(Tail(d))

NumeralValue(t) ==
    IF t[1] = "-" THEN 0 - Magnitude(Unsigned(t)) ELSE Magnitude(Unsigned(t))

\* the alias ends in _<N> with N >= 1
ValidAlias(name) ==
    /\ HasSuffix(name)
    /\ IsNumeral(SuffixText(name))
    /\ NumeralValue(SuffixText(name)) >= 1

AliasNumber(name) == NumeralValue(SuffixText(name))

\* the validation failure of an output item, NoErr when it has none
FailureOf(item) ==
    IF item.name = <<>> THEN ErrNoColumnAliasUsed
    ELSE IF ~HasSuffix(item.name) \/ ~IsNumeral(SuffixText(item.name))
    THEN ErrNamedWithoutNumberSuffix
    ELSE IF NumeralValue(SuffixText(item.name)) < 1 THEN ErrInvalidNumberSuffix
    ELSE IF ~item.cast.present THEN ErrColumnWithoutCast
    ELSE IF Len(item.cast.names) \notin {1, 2} THEN ErrTypeCastInvalid
    ELSE NoErr

ItemFails(item) == FailureOf(item) # NoErr

AllStrings(parts) == \A i \in 1..Len(parts) : parts[i].str

\* the TypeRef a cast of one or two segments stands for
TypeOfCast(parts) ==
    IF Len(parts) = 1
    THEN [Schema |-> <<>>, Name |-> parts[1].sval]
    ELSE [Schema |-> <<parts[1].sval>>, Name |-> parts[2].sval]

\* the Output an output item without failure stands for
OutputOf(item) ==
    [Number |-> AliasNumber(item.name), Name |-> item.name,
     Type |-> TypeOfCast(item.cast.names)]

ActionKind(stmt) ==
    CASE stmt.kind = "SelectStmt" -> SelectAction
      [] stmt.kind = "InsertStmt" -> InsertAction
      [] stmt.kind = "UpdateStmt" -> UpdateAction
      [] stmt.kind = "DeleteStmt" -> DeleteAction

FailingItems(stmt) == {j \in 1..Len(stmt.list) : ItemFails(stmt.list[j])}

PassingItems(stmt) == {j \in 1..Len(stmt.list) : ~ItemFails(stmt.list[j])}

\* two of the items of the statement that pass carry the same number
RepeatsNumber(stmt) ==
    \E j, k \in PassingItems(stmt) :
        j < k /\ AliasNumber(stmt.list[j].name) = AliasNumber(stmt.list[k].name)

\* every output item of the statement has a numbered alias and a cast of one or two
\* plain segments, and no number is used twice
FullyTyped(stmt) ==
    /\ stmt.kind \in Supported
    /\ FailingItems(stmt) = {}
    /\ \A j \in 1..Len(stmt.list) : AllStrings(stmt.list[j].cast.names)
    /\ ~RepeatsNumber(stmt)

\* ParseFullTyped has returned what it collected from the statements
Done == pc = "done" /\ Parse(buffer).ok

-----------------------------------------------------------------------------
(* C1: a single statement of a supported kind whose output items all have  *)
(* an alias ending in _<N>, N >= 1 and unique, and a cast of one or two    *)
(* segments yields no error and exactly one Action of the matching kind,   *)
(* whose Outputs are, in order, the number, full alias and cast type of    *)
(* each item; with no output items the Outputs are empty.                  *)
C1_FullyTypedStatement ==
    (Done /\ Len(result) = 1 /\ FullyTyped(result[1])) =>
        /\ err = <<>>
        /\ Len(actions) = 1
        /\ actions[1].kind = ActionKind(result[1])
        /\ Len(actions[1].Outputs) = Len(result[1].list)
        /\ \A j \in 1..Len(result[1].list) :
                actions[1].Outputs[j] = OutputOf(result[1].list[j])

C1_Witness ==
    /\ Done
    /\ Len(result) = 1
    /\ FullyTyped(result[1])
    /\ Len(result[1].list) = 2
    /\ Len(actions) = 1
    /\ actions[1].Outputs[1].Number = 2
    /\ actions[1].Outputs[2].Type.Schema = <<"pg_catalog">>

-----------------------------------------------------------------------------
\* the statements of the result that yield an Action: the supported ones with no
\* failing item and no repeated number
Yielding == {i \in 1..Len(result) : result[i].kind \in Supported
                /\ FailingItems(result[i]) = {} /\ ~RepeatsNumber(result[i])}

(* C2: a statement of a supported kind with an output item that fails      *)
(* validation, or whose produced Outputs repeat a number, has no Action    *)
(* among the returned actions: the actions are as many as the statements   *)
(* without such a failure, and a buffer of one such statement returns no   *)
(* Action at all, so none with fewer Outputs than the statement has items. *)
C2_NoActionOfFailedStatement ==
    Done =>
        /\ Len(actions) = Cardinality(Yielding)
        /\ (Len(result) = 1 /\ 1 \notin Yielding) => actions = <<>>

(* C3: for every statement of a supported kind and every output item of    *)
(* it that fails validation, the returned error is not nil and holds a     *)
(* cause of that item's error kind tagged with that item's offset.         *)
C3_EveryColumnFailureReported ==
    Done =>
        \A i \in 1..Len(result) :
            result[i].kind \in Supported =>
                \A j \in FailingItems(result[i]) :
                    /\ err # <<>>
                    /\ \E e \in 1..Len(err) :
                        \E c \in 1..Len(err[e].causes) :
                            /\ err[e].causes[c].kind = FailureOf(result[i].list[j])
                            /\ err[e].causes[c].loc = result[i].list[j].loc

\* the statement has a failing output item and, among the items that pass, two
\* with the same number
FailsAndRepeats(stmt) ==
    /\ stmt.kind \in Supported
    /\ FailingItems(stmt) # {}
    /\ RepeatsNumber(stmt)

\* the error of the statement at the offset: the errors of the aggregate are one
\* per failed statement, each at its statement's offset
ErrorsAt(loc) == {e \in 1..Len(err) : err[e].loc = loc}

KindsOf(causes) == {causes[c].kind : c \in 1..Len(causes)}

ColumnFailuresOf(stmt, causes) ==
    /\ Len(causes) = Cardinality(FailingItems(stmt))
    /\ \A c \in 1..Len(causes) :
         \E j \in FailingItems(stmt) :
            /\ Cardinality({k \in FailingItems(stmt) : k <= j}) = c
            /\ causes[c].kind = FailureOf(stmt.list[j])
            /\ causes[c].loc = stmt.list[j].loc

-----------------------------------------------------------------------------
\* the statements of the result whose evaluation on its own yields an Action, and
\* those whose evaluation on its own fails
YieldsAlone == {i \in 1..Len(result) : parseStmt(result[i]).status = "ok"}

FailsAlone == {i \in 1..Len(result) : parseStmt(result[i]).status = "err"}

\* the k-th element of a set of statement indices, in source order
Nth(S, k) == CHOOSE i \in S : Cardinality({j \in S : j <= i}) = k

(* C5: the returned actions are, in source order, exactly the Actions the  *)
(* statements yield when evaluated on their own, and the aggregate holds,  *)
(* in source order, exactly the failures they yield on their own: no       *)
(* statement changes or suppresses what another one yields.                *)
C5_StatementsIndependent ==
    Done =>
        /\ Len(actions) = Cardinality(YieldsAlone)
        /\ \A k \in 1..Len(actions) :
                actions[k] = parseStmt(result[Nth(YieldsAlone, k)]).action
        /\ Len(err) = Cardinality(FailsAlone)
        /\ \A k \in 1..Len(err) :
                err[k] = parseStmt(result[Nth(FailsAlone, k)]).err

C5_Witness ==
    /\ Done
    /\ Len(result) = 3
    /\ YieldsAlone = {1, 3}
    /\ Len(result[2].list) = 1
    /\ Len(actions) = 2
    /\ Len(err) = 1
    /\ err[1].loc = result[2].loc

Unsupported == {i \in 1..Len(result) : result[i].kind \notin Supported}

(* C6: a statement that is none of SELECT, INSERT, UPDATE, DELETE yields   *)
(* no Action and exactly one error carrying the "only support" message    *)
(* and the statement's offset, and the statements after it are still       *)
(* evaluated; a valid SELECT followed by an unsupported statement returns  *)
(* exactly the SELECT's Action and exactly that one error.                 *)
C6_UnsupportedStatement ==
    Done =>
        /\ \A i \in Unsupported :
                /\ Cardinality(ErrorsAt(result[i].loc)) = 1
                /\ \A e \in ErrorsAt(result[i].loc) :
                        err[e].kind = MsgOnlySupport /\ err[e].causes = <<>>
        /\ Cardinality({e \in 1..Len(err) : err[e].kind = MsgOnlySupport})
                = Cardinality(Unsupported)
        /\ Len(actions) + Len(err) = Len(result)
        /\ \A k \in 1..Len(actions) : actions[k].kind # NoAction.kind
        /\ (/\ Len(result) = 2
            /\ result[1].kind = "SelectStmt"
            /\ FullyTyped(result[1])
            /\ 2 \in Unsupported)
            => /\ Len(actions) = 1
               /\ actions[1].kind = SelectAction
               /\ Len(err) = 1
               /\ err[1].kind = MsgOnlySupport
               /\ err[1].loc = result[2].loc

C6_Witness ==
    /\ Done
    /\ Len(result) = 3
    /\ result[1].kind = "SelectStmt"
    /\ Len(result[1].list) = 1
    /\ Unsupported = {2}
    /\ Len(actions) = 2
    /\ Len(err) = 1
    /\ err[1].kind = MsgOnlySupport
    /\ err[1].loc = result[2].loc

(* C10: within every returned Action the numbers of the Outputs are        *)
(* pairwise distinct, and every Output has a number >= 1.                  *)
C10_NumbersDistinctAndPositive ==
    pc = "done" =>
        \A k \in 1..Len(actions) :
            /\ \A i, j \in 1..Len(actions[k].Outputs) :
                    i # j => actions[k].Outputs[i].Number # actions[k].Outputs[j].Number
            /\ \A i \in 1..Len(actions[k].Outputs) : actions[k].Outputs[i].Number >= 1

C10_Witness ==
    /\ Done
    /\ Len(actions) = 1
    /\ Len(err) = 1
    /\ Len(actions[1].Outputs) = 2
    /\ actions[1].Outputs[1].Number # actions[1].Outputs[2].Number

-----------------------------------------------------------------------------
NameReturned == pc = "returned" /\ arg.fn = "numberedName"

(* C7: numberedName fails with NotNamedWithNumberSuffix when the alias has *)
(* no underscore, when the underscore is its final character, or when the *)
(* text after the last underscore does not parse as an integer; it fails   *)
(* with InvalidNumberSuffix when that text parses to a value < 1; and      *)
(* otherwise returns that integer, which is >= 1. The three cases exclude  *)
(* each other and cover every alias.                                       *)
C7_NumberedName ==
    NameReturned =>
        IF ~HasSuffix(arg.name) \/ ~IsNumeral(SuffixText(arg.name))
        THEN ret = [num |-> 0, err |-> ErrNamedWithoutNumberSuffix]
        ELSE IF NumeralValue(SuffixText(arg.name)) < 1
        THEN ret = [num |-> 0, err |-> ErrInvalidNumberSuffix]
        ELSE /\ ret = [num |-> NumeralValue(SuffixText(arg.name)), err |-> NoErr]
             /\ ret.num >= 1

C7_Witness ==
    /\ NameReturned
    /\ arg.name = <<"a", "_", "0">>
    /\ ret.err = ErrInvalidNumberSuffix

CheckReturned == pc = "returned" /\ arg.fn = "checkAction"

\* the positions of the Outputs whose number an earlier Output carries
Repeats(outputs) ==
    {i \in 1..Len(outputs) : \E j \in 1..(i - 1) : outputs[j].Number = outputs[i].Number}

FirstRepeat(outputs) ==
    CHOOSE i \in Repeats(outputs) : \A k \in Repeats(outputs) : i <= k

\* the earliest Output with the number of the Output at position i
FirstClaimant(outputs, i) ==
    outputs[CHOOSE j \in 1..i :
                /\ outputs[j].Number = outputs[i].Number
                /\ \A k \in 1..(j - 1) : outputs[k].Number # outputs[i].Number]

(* C8: checkAction succeeds if and only if the numbers of the Outputs are  *)
(* pairwise distinct; otherwise it fails with one DuplicateNumberSuffix    *)
(* error, for the first position whose number was already seen, naming     *)
(* that number and the name of the earliest Output that carries it.        *)
C8_CheckAction ==
    CheckReturned =>
        /\ ret.dup = (Repeats(arg.action.Outputs) # {})
        /\ ~ret.dup => ret = NoDuplicate
        /\ ret.dup =>
            /\ ret.err.kind = ErrDuplicateNumberSuffix
            /\ ret.err.number =
                    arg.action.Outputs[FirstRepeat(arg.action.Outputs)].Number
            /\ ret.err.by =
                    FirstClaimant(arg.action.Outputs,
                                  FirstRepeat(arg.action.Outputs)).Name

C8_Witness ==
    /\ CheckReturned
    /\ Len(arg.action.Outputs) = 4
    /\ arg.action.Outputs[1].Name = <<"a", "_", "2">>
    /\ arg.action.Outputs[2].Name = <<"a", "_", "1">>
    /\ arg.action.Outputs[3].Name = <<"b", "_", "1">>
    /\ arg.action.Outputs[4].Name = <<"b", "_", "2">>
    /\ ret.dup
    /\ ret.err.number = 1
    /\ ret.err.by = <<"a", "_", "1">>

TargetCalled == pc \in {"returned", "panic"} /\ arg.fn = "parseResultTarget"

(* C9: for an output item with a valid alias and a cast, one segment gives *)
(* a TypeRef without schema named by the segment, two segments give the    *)
(* schema segment[0] and the name segment[1], and any other count fails    *)
(* with InvalidTypeCast, whose message holds the alias and the segment     *)
(* count, and gives no Output. (The segments of a cast of one or two are   *)
(* plain strings, as the grammar makes them.)                              *)
C9_TypeRefBySegmentCount ==
    (TargetCalled /\ ValidAlias(arg.rtgt.name) /\ arg.rtgt.cast.present) =>
        /\ (Len(arg.rtgt.cast.names) = 1 /\ AllStrings(arg.rtgt.cast.names)) =>
                /\ pc = "returned"
                /\ ret.status = "ok"
                /\ ret.out.Type = [Schema |-> <<>>, Name |-> arg.rtgt.cast.names[1].sval]
        /\ (Len(arg.rtgt.cast.names) = 2 /\ AllStrings(arg.rtgt.cast.names)) =>
                /\ pc = "returned"
                /\ ret.status = "ok"
                /\ ret.out.Type = [Schema |-> <<arg.rtgt.cast.names[1].sval>>,
                                   Name |-> arg.rtgt.cast.names[2].sval]
        /\ Len(arg.rtgt.cast.names) \notin {1, 2} =>
                /\ pc = "returned"
                /\ ret.status = "err"
                /\ ret.out = NoOutput
                /\ ret.err.kind = ErrTypeCastInvalid
                /\ ret.err.alias = arg.rtgt.name
                /\ ret.err.parts = Len(arg.rtgt.cast.names)

C9_Witness ==
    /\ TargetCalled
    /\ pc = "returned"
    /\ arg.rtgt.name = <<"a", "_", "1", "2">>
    /\ Len(arg.rtgt.cast.names) = 2
    /\ ret.status = "ok"
    /\ ret.out.Type = [Schema |-> <<"pg_catalog">>, Name |-> "int4"]

-----------------------------------------------------------------------------
\* the grammar rejects the buffer: one of its statements is malformed
Malformed == \E i \in 1..Len(buffer) : buffer[i].malformed

(* C11: a grammar-level failure is fatal for the whole call: once           *)
(* ParseFullTyped has parsed a buffer the grammar rejects, it has returned  *)
(* the wrapped failure and no actions and has evaluated no statement, also  *)
(* when the buffer holds statements that are valid on their own.            *)
C11_GrammarFailureIsFatal ==
    (Malformed /\ pc # "input") =>
        /\ pc = "done"
        /\ actions = <<>>
        /\ Len(err) = 1
        /\ err[1].kind = MsgFailedToParse
        /\ result = <<>>
        /\ pos = 0

C11_Witness ==
    /\ pc = "done"
    /\ Len(buffer) = 2
    /\ buffer[1].kind = "SelectStmt"
    /\ Len(buffer[1].list) = 2
    /\ FullyTyped(buffer[1])
    /\ buffer[2].malformed
    /\ actions = <<>>
    /\ err[1].kind = MsgFailedToParse

(* C12: parseResultTarget reports one failure per failing output item, the *)
(* first that applies in the order: no alias (NoAliasUsed), alias suffix   *)
(* invalid (NotNamedWithNumberSuffix, InvalidNumberSuffix), no cast        *)
(* (ColumnWithoutCast), segment count not 1 or 2 (InvalidTypeCast); the    *)
(* failure is tagged with the item's offset, and an item none of these     *)
(* applies to reports no failure.                                          *)
C12_FirstFailureInOrder ==
    TargetCalled =>
        /\ ItemFails(arg.rtgt) =>
            /\ pc = "returned"
            /\ ret.status = "err"
            /\ ret.out = NoOutput
            /\ ret.err.kind = FailureOf(arg.rtgt)
            /\ ret.err.loc = arg.rtgt.loc
        /\ (pc = "returned" /\ ~ItemFails(arg.rtgt)) => ret.status = "ok"

C12_Witness ==
    /\ TargetCalled
    /\ pc = "returned"
    /\ arg.rtgt.name = <<"a", "1">>
    /\ ~arg.rtgt.cast.present
    /\ arg.rtgt.loc = 21
    /\ ret.status = "err"
    /\ ret.err.kind = ErrNamedWithoutNumberSuffix
    /\ ret.err.loc = 21

(* C13: for an output item with a valid alias and a cast, a cast name      *)
(* segment that is not a plain string makes parseResultTarget panic,       *)
(* whatever the number of segments: it never returns for such an item.     *)
C13_NonStringSegmentPanics ==
    (/\ TargetCalled
     /\ ValidAlias(arg.rtgt.name)
     /\ arg.rtgt.cast.present
     /\ ~AllStrings(arg.rtgt.cast.names))
        => pc = "panic"

====
